---- MODULE Spec2Model ----
(***************************************************************************)
(* Model of the go-taskflow workflow engine (pkg/workflow/engine.go,       *)
(* pkg/executor/executor.go, pkg/types/types.go).                          *)
(*                                                                         *)
(* Strings that the engine inspects (conditions, variable values, task     *)
(* outputs) are sequences of one-character strings, so that Contains,      *)
(* Split, Trim and ReplaceAll are computed as the Go library computes      *)
(* them.  Task names stay atomic strings: the engine only compares them.   *)
(***************************************************************************)
EXTENDS Integers, Sequences, FiniteSets, TLC

\* ------------------------------------------------------------------ bounds
NumTasks == 3
MaxDeps == 1
MaxRetry == 3
MaxRuns == 2

\* ------------------------------------------------------- names and domains
TaskNames == <<"A", "B", "C", "D", "E">>
MissingName == "M"

Range(s) == {s[i] : i \in DOMAIN s}

Names(n) == {TaskNames[i] : i \in 1..n}

\* types.TaskResult: TaskName, Success, Error, Output (the timestamps are
\* never read by the engine).  Error is "nil" or the kind of the error.
NoResult == [TaskName |-> "", Success |-> FALSE, Error |-> "unset", Output |-> <<>>]

NoError == [kind |-> "nil", task |-> "", unexecuted |-> <<>>]

\* --------------------------------------------------- Go's strings package
\* Strings are sequences of one-character strings.

\* F applied to the value of v, which is computed once: an operator's
\* argument is otherwise computed again wherever the operator uses it.
Value(v, F(_)) == CHOOSE r \in {F(x) : x \in {v}} : TRUE

\* strings.Index: the first position of sub in s at or after from, 0 if none.
RECURSIVE IndexFrom(_, _, _)
IndexFrom(s, sub, from) ==
    IF from + Len(sub) - 1 > Len(s) THEN 0
    ELSE IF SubSeq(s, from, from + Len(sub) - 1) = sub THEN from
    ELSE IndexFrom(s, sub, from + 1)

\* strings.Contains
Contains(str, sub) == Value(str, LAMBDA s : IndexFrom(s, sub, 1) # 0)

\* strings.Split with a non-empty separator: every piece between successive
\* non-overlapping occurrences of sep, scanning left to right.
RECURSIVE Split(_, _)
Split(str, sep) ==
    Value(str, LAMBDA s :
        LET i == IndexFrom(s, sep, 1)
        IN  IF i = 0 THEN <<s>>
            ELSE <<SubSeq(s, 1, i - 1)>>
                 \o Split(SubSeq(s, i + Len(sep), Len(s)), sep))

\* strings.ReplaceAll with a non-empty old: non-overlapping occurrences of
\* old, left to right; the inserted text is not rescanned.
RECURSIVE ReplaceAll(_, _, _)
ReplaceAll(str, old, new) ==
    Value(str, LAMBDA s :
        LET i == IndexFrom(s, old, 1)
        IN  IF i = 0 THEN s
            ELSE SubSeq(s, 1, i - 1) \o new
                 \o ReplaceAll(SubSeq(s, i + Len(old), Len(s)), old, new))

RECURSIVE TrimLeft(_, _)
TrimLeft(str, cutset) ==
    Value(str, LAMBDA s :
        IF s # <<>> /\ Head(s) \in cutset THEN TrimLeft(Tail(s), cutset) ELSE s)

RECURSIVE TrimRight(_, _)
TrimRight(str, cutset) ==
    Value(str, LAMBDA s :
        IF s # <<>> /\ s[Len(s)] \in cutset
        THEN TrimRight(SubSeq(s, 1, Len(s) - 1), cutset) ELSE s)

\* strings.Trim(s, cutset): strips leading and trailing characters of cutset.
Trim(s, cutset) == TrimRight(TrimLeft(s, cutset), cutset)

\* The white space of strings.TrimSpace that a condition can carry.
WhiteSpace == {" ", "\t", "\n", "\r"}

\* strings.TrimSpace
TrimSpace(s) == Trim(s, WhiteSpace)

\* The cutset "\"'" of evaluateCondition.
Quotes == {"\"", "'"}

EqOp == <<"=", "=">>
NeOp == <<"!", "=">>

\* "${" + key + "}"
Placeholder(key) == <<"$", "{">> \o key \o <<"}">>

\* "${" + taskName + ".output}"; a task name is one character.
OutputPlaceholder(taskName) ==
    <<"$", "{", taskName, ".", "o", "u", "t", "p", "u", "t", "}">>

\* The orders in which a Go range statement can visit the keys of a map.
Orders(S) == {o \in [1..Cardinality(S) -> S] : Range(o) = S}

\* Engine.replaceVariables, with the iteration orders of the two maps made
\* explicit: varOrder over workflow.Variables, taskOrder over e.results.
RECURSIVE ReplaceVars(_, _, _)
ReplaceVars(result, variables, varOrder) ==
    IF varOrder = <<>> THEN result
    ELSE ReplaceVars(ReplaceAll(result, Placeholder(Head(varOrder)),
                                variables[Head(varOrder)]),
                     variables, Tail(varOrder))

\* Faulty variant of usesOutput: the output of a failed task is used too.
usesAnyOutput(taskResult) == TRUE

\* replaceVariables, line 236: only the output of a successful task is used.
usesOutput(taskResult) == taskResult.Success

RECURSIVE ReplaceOutputs(_, _, _)
ReplaceOutputs(result, res, taskOrder) ==
    IF taskOrder = <<>> THEN result
    ELSE LET taskName == Head(taskOrder)
             next == IF usesOutput(res[taskName])
                     THEN ReplaceAll(result, OutputPlaceholder(taskName),
                                     res[taskName].Output)
                     ELSE result
         IN  ReplaceOutputs(next, res, Tail(taskOrder))

replaceVariables(input, variables, res, varOrder, taskOrder) ==
    ReplaceOutputs(ReplaceVars(input, variables, varOrder), res, taskOrder)

\* Faulty variant of truthy: only the empty text is false.
truthyUnlessEmpty(condition) == condition # <<>>

\* evaluateCondition, line 224: the text as a truth value.
truthy(condition) ==
    /\ condition # <<>>
    /\ condition # <<"f", "a", "l", "s", "e">>
    /\ condition # <<"0">>

\* Engine.evaluateCondition applied to the text replaceVariables returned.
evaluateResolved(condition) ==
    LET eqParts == Split(condition, EqOp)
        neParts == Split(condition, NeOp)
    IN  IF Contains(condition, EqOp) /\ Len(eqParts) = 2
        THEN TrimSpace(eqParts[1]) = TrimSpace(Trim(eqParts[2], Quotes))
        ELSE IF Contains(condition, NeOp) /\ Len(neParts) = 2
        THEN TrimSpace(neParts[1]) # TrimSpace(Trim(neParts[2], Quotes))
        ELSE truthy(condition)

\* Engine.evaluateCondition
evaluateCondition(condition, variables, res, varOrder, taskOrder) ==
    evaluateResolved(replaceVariables(condition, variables, res, varOrder, taskOrder))

\* The output of a task skipped by its condition: "Skipped due to condition".
SkippedOutput ==
    <<"S", "k", "i", "p", "p", "e", "d", " ", "d", "u", "e", " ",
      "t", "o", " ", "c", "o", "n", "d", "i", "t", "i", "o", "n">>

\* ------------------------------------------------------------------ state
VARIABLES
    workflow,        \* Engine.workflow: [Tasks, Variables], immutable
    results,         \* Engine.results: task name -> TaskResult
    executed,        \* Run's executed map: the names mapped to true
    allResults,      \* Run's allResults slice
    parallelTasks,   \* Run's parallelTasks of the current round (task indices)
    sequentialTasks, \* the part of Run's sequentialTasks not yet processed
    pc,              \* where Run stands: "loop", "par", "seq", "done"
    err,             \* the error Run returned (NoError while running)
    tstate,          \* per task definition, where its executeTask call of the
                     \* current round stands: "idle" (not called), "running",
                     \* "returned", "recorded" (the result is in allResults)
    attempt,         \* executeTask's loop variable, per task definition
    tresult,         \* executeTask's result variable, per task definition
    expired,         \* whether taskCtx's deadline has passed, per task definition
    calls,           \* how often executeTask was called, per task definition
    invoked,         \* how often Executor.Execute was called, per task definition
    round,           \* how many iterations of Run's loop have begun
    roundOf,         \* the iteration in which executeTask was called, per task definition
    resolved,        \* evaluateCondition's condition after replaceVariables, per
                     \* task definition
    handed,          \* the text the backend last used as its command, URL or
                     \* file path, per task definition
    runs,            \* how many times Run has been called on the engine
    mu               \* Engine.mu: the threads that hold the mutex (0 for the
                     \* thread of Run, i for the executeTask call of
                     \* definition i)

vars == <<workflow, results, executed, allResults, parallelTasks, sequentialTasks,
          pc, err, tstate, attempt, tresult, expired, calls, invoked, round,
          roundOf, resolved, handed, runs, mu>>

Tasks == workflow.Tasks
Defs == DOMAIN workflow.Tasks

\* ---------------------------------------------------------- Engine helpers
\* Engine.dependenciesMet
dependenciesMet(task, exec, res) ==
    \A dep \in task.DependsOn :
        /\ dep \in exec
        /\ ~(dep \in DOMAIN res /\ ~res[dep].Success)

\* Engine.storeResult: e.results[result.TaskName] = result
storeResult(res, result) ==
    [n \in DOMAIN res \cup {result.TaskName} |->
        IF n = result.TaskName THEN result ELSE res[n]]

RECURSIVE storeAll(_, _)
storeAll(res, rs) ==
    IF rs = <<>> THEN res ELSE storeAll(storeResult(res, Head(rs)), Tail(rs))

\* The task indices in authoring order.
Indices == [i \in 1..Len(Tasks) |-> i]

\* Faulty variant of readyTasks: a task already executed is ready again.
readyTasksAgain(exec, res) ==
    SelectSeq(Indices, LAMBDA i : dependenciesMet(Tasks[i], exec, res))

\* Run, lines 45-54: the tasks that can be executed.
readyTasks(exec, res) ==
    SelectSeq(Indices, LAMBDA i : /\ Tasks[i].Name \notin exec
                                  /\ dependenciesMet(Tasks[i], exec, res))

\* Run, lines 59-64: the names reported by the dependency error.
unexecutedNames(exec) ==
    LET idx == SelectSeq(Indices, LAMBDA i : Tasks[i].Name \notin exec)
    IN  [k \in DOMAIN idx |-> Tasks[idx[k]].Name]

\* Faulty variant of sequentialOf: the sequential group in reverse order.
sequentialReversed(ready) ==
    LET sq == SelectSeq(ready, LAMBDA i : ~Tasks[i].Parallel)
    IN  [k \in DOMAIN sq |-> sq[Len(sq) + 1 - k]]

\* Run, lines 71-78
parallelOf(ready) == SelectSeq(ready, LAMBDA i : Tasks[i].Parallel)
sequentialOf(ready) == SelectSeq(ready, LAMBDA i : ~Tasks[i].Parallel)

\* Faulty variants of isFatal: the flag inverted; the flag ignored.
isFatalInverted(result, task) == ~result.Success /\ task.ContinueOnError
isFatalAlways(result, task) == ~result.Success

\* Run, line 98: a sequential task's failure ends the run.
isFatal(result, task) == ~result.Success /\ ~task.ContinueOnError

\* Faulty variant of waitDone: the wait ends with the first goroutine done.
waitAny(par, ts) == \E i \in Range(par) : ts[i] = "returned"

\* executeParallel, line 170: wg.Wait returns once every goroutine is done.
waitDone(par, ts) == \A i \in Range(par) : ts[i] = "returned"

\* Faulty variant of expireCtx: the deadline is set on the shared context.
expireAll(exp, i) == [j \in DOMAIN exp |-> TRUE]

\* executeTask, lines 121-126: taskCtx is a child of ctx with the task's own
\* deadline; when it passes, only the context of task i is done.
expireCtx(exp, i) == [exp EXCEPT ![i] = TRUE]

\* Faulty variant of maxAttemptsOf: the configured number is used as it is.
maxAttemptsRaw(task) == task.MaxAttempts

\* Faulty variant of canLock: Lock returns although a thread holds the mutex.
canLockAlways(m) == TRUE

\* sync.Mutex.Lock returns only while no thread holds the mutex.
canLock(m) == m = {}

\* executeTask, lines 129-134
maxAttemptsOf(task) == IF task.MaxAttempts > 0 THEN task.MaxAttempts ELSE 1

\* Faulty variant of loopEnds: a successful attempt does not leave the loop.
loopEndsWithoutBreak(e, att, max) == att + 1 >= max

\* executeTask, lines 139-152: after the attempt numbered att (from 0) ended
\* with error e, the loop is left by the break or by its test.
loopEnds(e, att, max) == e = "nil" \/ att + 1 >= max

\* Executor.Execute: the (success, error) pairs a call can end with.  A shell
\* or http backend honours the context; the file backend never reads it; any
\* other type is rejected.
BackendErrors(task, ctxExpired) ==
    IF task.Type \in {"shell", "http"}
    THEN IF ctxExpired THEN {"deadline exceeded"} ELSE {"nil", "backend failed"}
    ELSE IF task.Type = "file" THEN {"nil", "backend failed"}
    ELSE {"unknown task type"}

\* Executor.replaceVariables: workflow variables only.
ExecutorReplaceVariables(input, variables, varOrder) ==
    ReplaceVars(input, variables, varOrder)

\* Whether the backend of the task's type reads a string field of the task
\* (executeShell the command, executeHTTP the URL, the file actions the path);
\* Command stands for that field.
UsesField(task) == task.Type \in {"shell", "http", "file"}

\* The result Executor.Execute builds; the output of the k-th invocation of a
\* backend is the digit k.
ExecResult(task, k, e) ==
    [TaskName |-> task.Name, Success |-> (e = "nil"), Error |-> e,
     Output |-> IF e = "nil" THEN <<ToString(k)>> ELSE <<>>]

\* Faulty variant of SkippedResult: a skipped task counts as failed.
SkippedAsFailure(task) ==
    [TaskName |-> task.Name, Success |-> FALSE, Error |-> "skipped",
     Output |-> SkippedOutput]

\* executeTask, lines 111-117: the result of a task skipped by its condition.
SkippedResult(task) ==
    [TaskName |-> task.Name, Success |-> TRUE, Error |-> "nil",
     Output |-> SkippedOutput]

\* -------------------------------------------------------------- workflows
\* The dependency lists: at most MaxDeps names, among them a name that no
\* task carries.  DependsOn is a set: dependenciesMet is a conjunction over
\* the list, whatever its order.
DepSets(n) == {d \in SUBSET (Names(n) \cup {MissingName}) : Cardinality(d) <= MaxDeps}

PlainTask(name, deps, par, coe) ==
    [Name |-> name, DependsOn |-> deps, Parallel |-> par, ContinueOnError |-> coe,
     Condition |-> <<>>, MaxAttempts |-> 0, Timeout |-> 0, Type |-> "shell",
     Command |-> <<>>]

\* Namings of n task definitions up to renaming: a definition reuses an
\* earlier name (the parser does not reject duplicates) or takes the next one.
Namings(n) ==
    {nm \in [1..n -> Names(n)] :
        \A i \in 1..n : \E k \in 1..(Cardinality({nm[j] : j \in 1..(i - 1)}) + 1) :
            nm[i] = TaskNames[k]}

\* A scheduling workflow: n plain tasks with the given names, dependencies
\* and flags.
SchedulingWorkflow(n, nm, ds, fl) ==
    [Tasks |-> [i \in 1..n |-> PlainTask(nm[i], ds[i], fl[i][1], fl[i][2])],
     Variables |-> <<>>]

\* A fan-in workflow: tasks A and B, and a task C that depends on two names.
FanInWorkflow(fl, d) ==
    [Tasks |-> <<PlainTask("A", {}, fl[1][1], fl[1][2]),
                 PlainTask("B", {}, fl[2][1], fl[2][2]),
                 PlainTask("C", d, fl[3][1], fl[3][2])>>,
     Variables |-> <<>>]

FanInDeps == {{"A", "B"}, {"A", MissingName}, {"B", MissingName}}

\* Conditions of the execution workflows: none, "0", "1".
Conditions == {<<>>, <<"0">>, <<"1">>}

\* An execution workflow: task A with a condition, a retry policy, a timeout
\* and a type, and a plain task B that may depend on it.
ExecutionWorkflow(a, d, par2) ==
    [Tasks |-> <<a, PlainTask("B", d, par2, FALSE)>>, Variables |-> <<>>]

ExecutionTasks ==
    [Name : {"A"}, DependsOn : {{}}, Parallel : BOOLEAN, ContinueOnError : BOOLEAN,
     Condition : Conditions, MaxAttempts : (-1)..MaxRetry, Timeout : {0, 1},
     Type : {"shell", "file", "ftp"}, Command : {<<>>}]

\* Texts of the resolver workflows: the variable "env" with the values "prod"
\* and "dev", and a key "x" that no workflow defines.
EnvKey == <<"e", "n", "v">>
UnknownKey == <<"x">>
Prod == <<"p", "r", "o", "d">>
Dev == <<"d", "e", "v">>
Space == <<" ">>

Quoted(s) == <<"\"">> \o s \o <<"\"">>

\* README's form of a comparison: ${key} == "c" and ${key} != "c".
CondEq(key, c) == Placeholder(key) \o Space \o EqOp \o Space \o Quoted(c)
CondNe(key, c) == Placeholder(key) \o Space \o NeOp \o Space \o Quoted(c)

\* ${A.output} == 1
CondOutput == OutputPlaceholder("A") \o Space \o EqOp \o Space \o <<"1">>

\* ${env}${x}${A.output}${env}
CondMixed ==
    Placeholder(EnvKey) \o Placeholder(UnknownKey) \o OutputPlaceholder("A")
    \o Placeholder(EnvKey)

ResolverConditions ==
    {CondEq(EnvKey, Prod), CondNe(EnvKey, Prod), CondOutput, CondMixed}

\* The command of task B: ${env} ${A.output}
ResolverCommand == Placeholder(EnvKey) \o Space \o OutputPlaceholder("A")

\* workflow.Variables: empty, env=prod, env=dev.
VariableMaps == {<<>>} \cup {[k \in {EnvKey} |-> v] : v \in {Prod, Dev}}

\* A resolver workflow: a plain task A, and a task B with a condition and a
\* command that refer to the variable and to A's output.
ResolverWorkflow(fa, d, par2, cond, variables) ==
    [Tasks |-> <<PlainTask("A", {}, fa[1], fa[2]),
                 [PlainTask("B", d, par2, FALSE) EXCEPT
                     !.Condition = cond, !.Command = ResolverCommand]>>,
     Variables |-> variables]

\* A lock workflow: tasks A and B with conditions and a plain task C, so that
\* two goroutines can want the mutex while a third runs its backend.
LockWorkflow(ca, cb, fl) ==
    [Tasks |-> <<[PlainTask("A", {}, fl[1], TRUE) EXCEPT !.Condition = ca],
                 [PlainTask("B", {}, fl[2], TRUE) EXCEPT !.Condition = cb],
                 PlainTask("C", {}, fl[3], TRUE)>>,
     Variables |-> <<>>]

\* Texts of the condition workflows: the variables "a" and "b"; conditions
\* with more than one operator, the literal "false", a lone placeholder.
KeyA == <<"a">>
KeyB == <<"b">>
One == <<"1">>
Two == <<"2">>
False == <<"f", "a", "l", "s", "e">>

OperatorConditions ==
    {One \o EqOp \o One \o EqOp \o One,       \* 1==1==1
     One \o EqOp \o One \o NeOp \o Two,       \* 1==1!=2
     One \o NeOp \o One \o EqOp \o One,       \* 1!=1==1
     One \o NeOp \o Two \o NeOp \o One,       \* 1!=2!=1
     False,                                   \* false
     Placeholder(KeyA),                       \* ${a}
     Placeholder(KeyA) \o EqOp \o One}        \* ${a}==1

\* workflow.Variables of the condition workflows: a empty, a=1, a=false, and
\* a=${b} with b=1.
ConditionVariables ==
    {[k \in {KeyA} |-> v] : v \in {<<>>, One, False}}
    \cup {[k \in {KeyA, KeyB} |-> IF k = KeyA THEN Placeholder(KeyB) ELSE One]}

\* A condition workflow: task A with a condition, and a plain task B that
\* depends on it.
ConditionWorkflow(fa, cond, variables) ==
    [Tasks |-> <<[PlainTask("A", {}, fa[1], fa[2]) EXCEPT !.Condition = cond],
                 PlainTask("B", {"A"}, FALSE, FALSE)>>,
     Variables |-> variables]

InitWorkflow ==
    \/ \E n \in 1..NumTasks :
          \E nm \in Namings(n), ds \in [1..n -> DepSets(n)],
             fl \in [1..n -> BOOLEAN \X BOOLEAN] :
             workflow = SchedulingWorkflow(n, nm, ds, fl)
    \/ \E fl \in [1..3 -> BOOLEAN \X BOOLEAN], d \in FanInDeps :
          workflow = FanInWorkflow(fl, d)
    \/ \E a \in ExecutionTasks, d \in {{}, {"A"}}, par2 \in BOOLEAN :
          workflow = ExecutionWorkflow(a, d, par2)
    \/ \E fa \in BOOLEAN \X BOOLEAN, d \in {{}, {"A"}}, par2 \in BOOLEAN,
          cond \in ResolverConditions, variables \in VariableMaps :
          workflow = ResolverWorkflow(fa, d, par2, cond, variables)
    \/ \E fa \in BOOLEAN \X BOOLEAN, cond \in OperatorConditions,
          variables \in ConditionVariables :
          workflow = ConditionWorkflow(fa, cond, variables)

\* ------------------------------------------------------------------- Init
\* NewEngine followed by Run's lines 33-41, for the workflow chosen.
InitEngine ==
    /\ results = <<>>
    /\ executed = {}
    /\ allResults = <<>>
    /\ parallelTasks = <<>>
    /\ sequentialTasks = <<>>
    /\ pc = "loop"
    /\ err = NoError
    /\ tstate = [i \in Defs |-> "idle"]
    /\ attempt = [i \in Defs |-> 0]
    /\ tresult = [i \in Defs |-> NoResult]
    /\ expired = [i \in Defs |-> FALSE]
    /\ calls = [i \in Defs |-> 0]
    /\ invoked = [i \in Defs |-> 0]
    /\ round = 0
    /\ roundOf = [i \in Defs |-> 0]
    /\ resolved = [i \in Defs |-> <<>>]
    /\ handed = [i \in Defs |-> <<>>]
    /\ runs = 1
    /\ mu = {}

Init == InitWorkflow /\ InitEngine

\* ---------------------------------------------------------------- actions
\* Run, lines 43-78: the loop test, the ready set, the dependency error, the
\* partition; executeParallel's lines 159-168 start the goroutines.
RunLoopBody ==
    /\ pc = "loop"
    /\ LET ready == readyTasks(executed, results)
       IN  IF Cardinality(executed) >= Len(Tasks)
           THEN /\ pc' = "done"
                /\ UNCHANGED <<err, parallelTasks, sequentialTasks, round, tstate>>
           ELSE IF ready = <<>>
           THEN /\ pc' = "done"
                /\ err' = [kind |-> "dependency", task |-> "",
                           unexecuted |-> unexecutedNames(executed)]
                /\ round' = round + 1
                /\ UNCHANGED <<parallelTasks, sequentialTasks, tstate>>
           ELSE /\ parallelTasks' = parallelOf(ready)
                /\ round' = round + 1
                /\ sequentialTasks' = sequentialOf(ready)
                /\ pc' = IF parallelOf(ready) # <<>> THEN "par" ELSE "seq"
                /\ tstate' = [i \in Defs |->
                                IF i \in Range(ready) THEN "idle" ELSE tstate[i]]
                /\ err' = err
    /\ UNCHANGED <<workflow, results, executed, allResults, attempt, tresult,
                   expired, calls, invoked, roundOf, resolved, handed>>
    /\ UNCHANGED runs

\* Run's loop iteration as one step: each dependenciesMet call takes the
\* mutex (line 181) and has released it (line 183) when the step ends.
RunLoop == RunLoopBody /\ mu' = mu

\* Faulty variant of Callable: the members of the parallel group are called in turn,
\* each after the one before it has returned.
CallableInTurn(i) ==
    \/ /\ pc = "par"
       /\ \E k \in DOMAIN parallelTasks :
             /\ parallelTasks[k] = i
             /\ \A l \in 1..(k - 1) : tstate[parallelTasks[l]] = "returned"
    \/ pc = "seq" /\ sequentialTasks # <<>> /\ i = Head(sequentialTasks)

\* Whether Run (lines 91-92) or a goroutine of executeParallel (lines
\* 162-167) is about to call executeTask on definition i.
Callable(i) ==
    \/ pc = "par" /\ i \in Range(parallelTasks)
    \/ pc = "seq" /\ sequentialTasks # <<>> /\ i = Head(sequentialTasks)

\* Whether definition i is a member of the parallel group being executed.
Member(i) == pc = "par" /\ i \in Range(parallelTasks)

\* executeTask, lines 108-137, without the mutex: the condition and the
\* setup of the retry loop.
StartBody(i) ==
    /\ calls' = [calls EXCEPT ![i] = @ + 1]
    /\ roundOf' = [roundOf EXCEPT ![i] = round]
    /\ \E varOrder \in Orders(DOMAIN workflow.Variables),
          taskOrder \in Orders(DOMAIN results) :
          /\ resolved' = [resolved EXCEPT ![i] =
                            IF Tasks[i].Condition # <<>>
                            THEN replaceVariables(Tasks[i].Condition,
                                     workflow.Variables, results, varOrder, taskOrder)
                            ELSE @]
          /\ IF /\ Tasks[i].Condition # <<>>
                /\ ~evaluateCondition(Tasks[i].Condition, workflow.Variables,
                                      results, varOrder, taskOrder)
             THEN /\ tresult' = [tresult EXCEPT ![i] = SkippedResult(Tasks[i])]
                  /\ tstate' = [tstate EXCEPT ![i] = "returned"]
             ELSE IF 0 < maxAttemptsOf(Tasks[i])
             THEN /\ tstate' = [tstate EXCEPT ![i] = "running"]
                  /\ tresult' = tresult
             ELSE \* the loop body never runs: result is still nil
                  /\ tstate' = [tstate EXCEPT ![i] = "returned"]
                  /\ tresult' = [tresult EXCEPT ![i] = NoResult]
    /\ attempt' = [attempt EXCEPT ![i] = 0]
    /\ expired' = [expired EXCEPT ![i] = FALSE]
    /\ UNCHANGED <<workflow, results, executed, allResults, parallelTasks,
                   sequentialTasks, pc, err, invoked, round, handed, runs>>

\* executeTask, lines 108-137, as one step: replaceVariables takes the mutex
\* (line 234) and has released it (line 240) when the step ends.
StartTask(i) ==
    /\ tstate[i] = "idle"
    /\ Callable(i)
    /\ StartBody(i)
    /\ mu' = mu

\* The deadline of context.WithTimeout (line 124) passes while the task runs.
Expire(i) ==
    /\ tstate[i] = "running"
    /\ Tasks[i].Timeout > 0
    /\ ~expired[i]
    /\ expired' = expireCtx(expired, i)
    /\ UNCHANGED <<workflow, results, executed, allResults, parallelTasks,
                   sequentialTasks, pc, err, tstate, attempt, tresult, calls,
                   invoked, round, roundOf, resolved, handed>>
    /\ UNCHANGED <<runs, mu>>

\* executeTask, lines 139-154: one iteration of the retry loop.
Attempt(i) ==
    /\ tstate[i] = "running"
    /\ \E e \in BackendErrors(Tasks[i], expired[i]) :
          /\ tresult' = [tresult EXCEPT
                            ![i] = ExecResult(Tasks[i], invoked[i] + 1, e)]
          /\ IF loopEnds(e, attempt[i], maxAttemptsOf(Tasks[i]))
             THEN tstate' = [tstate EXCEPT ![i] = "returned"]
             ELSE tstate' = tstate
    /\ \E varOrder \in Orders(DOMAIN workflow.Variables) :
          handed' = IF UsesField(Tasks[i])
                    THEN [handed EXCEPT ![i] = ExecutorReplaceVariables(
                             Tasks[i].Command, workflow.Variables, varOrder)]
                    ELSE handed
    /\ attempt' = [attempt EXCEPT ![i] = @ + 1]
    /\ invoked' = [invoked EXCEPT ![i] = @ + 1]
    /\ UNCHANGED <<workflow, results, executed, allResults, parallelTasks,
                   sequentialTasks, pc, err, expired, calls, round, roundOf,
                   resolved>>
    /\ UNCHANGED <<runs, mu>>

\* executeParallel's wg.Wait and return (lines 170-171), then Run's lines
\* 83-87.
JoinBody ==
    /\ pc = "par"
    /\ waitDone(parallelTasks, tstate)
    /\ LET rs == [k \in DOMAIN parallelTasks |-> tresult[parallelTasks[k]]]
       IN  /\ allResults' = allResults \o rs
           /\ executed' = executed \cup {rs[k].TaskName : k \in DOMAIN rs}
           /\ results' = storeAll(results, rs)
    /\ tstate' = [i \in Defs |->
                    IF i \in Range(parallelTasks) /\ tstate[i] = "returned"
                    THEN "recorded" ELSE tstate[i]]
    /\ pc' = IF sequentialTasks = <<>> THEN "loop" ELSE "seq"
    /\ UNCHANGED <<workflow, parallelTasks, sequentialTasks, err, attempt,
                   tresult, expired, calls, invoked, round, roundOf, resolved,
                   handed>>
    /\ UNCHANGED runs

\* The end of executeParallel and Run's lines 83-87 as one step: each
\* storeResult call takes the mutex and releases it on return.
Join == JoinBody /\ mu' = mu

\* Run, lines 93-100, after executeTask returned for a sequential task.
SeqRecordBody ==
    /\ pc = "seq"
    /\ sequentialTasks # <<>>
    /\ tstate[Head(sequentialTasks)] = "returned"
    /\ LET i == Head(sequentialTasks)
           result == tresult[i]
       IN  /\ allResults' = Append(allResults, result)
           /\ executed' = executed \cup {result.TaskName}
           /\ results' = storeResult(results, result)
           /\ tstate' = [tstate EXCEPT ![i] = "recorded"]
           /\ IF isFatal(result, Tasks[i])
              THEN /\ pc' = "done"
                   /\ err' = [kind |-> "task failed", task |-> Tasks[i].Name,
                              unexecuted |-> <<>>]
                   /\ sequentialTasks' = sequentialTasks
              ELSE /\ sequentialTasks' = Tail(sequentialTasks)
                   /\ pc' = IF Tail(sequentialTasks) = <<>> THEN "loop" ELSE "seq"
                   /\ err' = err
    /\ UNCHANGED <<workflow, parallelTasks, attempt, tresult, expired, calls,
                   invoked, round, roundOf, resolved, handed>>
    /\ UNCHANGED runs

\* Run's lines 93-100 as one step: storeResult takes the mutex and releases
\* it on return.
SeqRecord == SeqRecordBody /\ mu' = mu

Next ==
    \/ RunLoop
    \/ \E i \in Defs : StartTask(i)
    \/ \E i \in Defs : Expire(i)
    \/ \E i \in Defs : Attempt(i)
    \/ Join
    \/ SeqRecord

Spec == Init /\ [][Next]_vars

\* Run under the Go scheduler with backends that terminate: the thread of
\* Run and every goroutine of executeParallel take their next step, and every
\* invocation of a backend returns.  The deadline of a task need not pass.
Fairness ==
    /\ WF_vars(RunLoop) /\ WF_vars(Join) /\ WF_vars(SeqRecord)
    /\ \A i \in 1..NumTasks :
          /\ WF_vars(i \in Defs /\ StartTask(i))
          /\ WF_vars(i \in Defs /\ Attempt(i))

FairSpec == Init /\ [][Next]_vars /\ Fairness

\* A further call of Engine.Run on the same engine: lines 33-41 make a new
\* executed map and a new allResults; e.results is the map NewEngine made.
RunAgain ==
    /\ pc = "done"
    /\ runs < MaxRuns
    /\ runs' = runs + 1
    /\ executed' = {}
    /\ allResults' = <<>>
    /\ parallelTasks' = <<>>
    /\ sequentialTasks' = <<>>
    /\ pc' = "loop"
    /\ err' = NoError
    /\ tstate' = [i \in Defs |-> "idle"]
    /\ attempt' = [i \in Defs |-> 0]
    /\ tresult' = [i \in Defs |-> NoResult]
    /\ expired' = [i \in Defs |-> FALSE]
    /\ calls' = [i \in Defs |-> 0]
    /\ invoked' = [i \in Defs |-> 0]
    /\ round' = 0
    /\ roundOf' = [i \in Defs |-> 0]
    /\ resolved' = [i \in Defs |-> <<>>]
    /\ handed' = [i \in Defs |-> <<>>]
    /\ UNCHANGED <<workflow, results, mu>>

RerunNext == Next \/ RunAgain

\* ------------------------------------------------ the mutex, step by step
\* The thread of Run; the executeTask call of definition i is thread i.
RunThread == 0

\* Whether the next iteration of Run's loop reads e.results: dependenciesMet
\* reaches line 181 for a dependency that is in executed.
ReadsStore ==
    /\ pc = "loop"
    /\ Cardinality(executed) < Len(Tasks)
    /\ \E i \in Defs :
          Tasks[i].Name \notin executed /\ Tasks[i].DependsOn \cap executed # {}

\* Whether Run is about to call storeResult (lines 86 and 94).
WritesStore ==
    \/ pc = "par" /\ waitDone(parallelTasks, tstate)
    \/ pc = "seq" /\ sequentialTasks # <<>>
          /\ tstate[Head(sequentialTasks)] = "returned"

\* e.mu.Lock() on the thread of Run (lines 181 and 193).
RunLock ==
    /\ ReadsStore \/ WritesStore
    /\ RunThread \notin mu
    /\ canLock(mu)
    /\ mu' = mu \cup {RunThread}
    /\ UNCHANGED <<workflow, results, executed, allResults, parallelTasks,
                   sequentialTasks, pc, err, tstate, attempt, tresult, expired,
                   calls, invoked, round, roundOf, resolved, handed, runs>>

\* Run's loop iteration, with the mutex held for its reads of e.results and
\* released at line 183.
LockedRunLoop ==
    /\ ReadsStore <=> RunThread \in mu
    /\ RunLoopBody
    /\ mu' = mu \ {RunThread}

\* Run's lines 83-87 with the mutex held by storeResult and released on its
\* return.
LockedJoin ==
    /\ RunThread \in mu
    /\ JoinBody
    /\ mu' = mu \ {RunThread}

\* Run's lines 93-100 with the mutex held by storeResult and released on its
\* return.
LockedSeqRecord ==
    /\ RunThread \in mu
    /\ SeqRecordBody
    /\ mu' = mu \ {RunThread}

\* e.mu.Lock() in replaceVariables (line 234), called by evaluateCondition
\* for a task with a condition.
LockResults(i) ==
    /\ tstate[i] = "idle"
    /\ Callable(i)
    /\ Tasks[i].Condition # <<>>
    /\ canLock(mu)
    /\ mu' = mu \cup {i}
    /\ tstate' = [tstate EXCEPT ![i] = "locked"]
    /\ UNCHANGED <<workflow, results, executed, allResults, parallelTasks,
                   sequentialTasks, pc, err, attempt, tresult, expired, calls,
                   invoked, round, roundOf, resolved, handed, runs>>

\* The loop over e.results and e.mu.Unlock() (lines 235-240), then the rest
\* of executeTask up to the retry loop.
UnlockResults(i) ==
    /\ tstate[i] = "locked"
    /\ i \in mu
    /\ StartBody(i)
    /\ mu' = mu \ {i}

\* executeTask up to the retry loop for a task without a condition:
\* evaluateCondition is not called and the mutex is not touched.
StartUnlocked(i) ==
    /\ tstate[i] = "idle"
    /\ Callable(i)
    /\ Tasks[i].Condition = <<>>
    /\ StartBody(i)
    /\ mu' = mu

LockNext ==
    \/ RunLock
    \/ LockedRunLoop
    \/ LockedJoin
    \/ LockedSeqRecord
    \/ \E i \in Defs : LockResults(i)
    \/ \E i \in Defs : UnlockResults(i)
    \/ \E i \in Defs : StartUnlocked(i)
    \/ \E i \in Defs : Expire(i)
    \/ \E i \in Defs : Attempt(i)

LockConditions == {<<"0">>, <<"1">>}

LockInit ==
    /\ \/ InitWorkflow
       \/ \E ca \in LockConditions, cb \in LockConditions,
             fl \in [1..3 -> BOOLEAN] :
             workflow = LockWorkflow(ca, cb, fl)
    /\ InitEngine

\* One Run, with the acquisitions and releases of Engine.mu as steps.
LockSpec == LockInit /\ [][LockNext]_vars

\* Run called up to MaxRuns times on one engine.
RerunSpec == Init /\ [][RerunNext]_vars

\* ----------------------------------------------------------------- claims
UniqueNames == \A i, j \in Defs : Tasks[i].Name = Tasks[j].Name => i = j

Started(i) == calls[i] > 0

Recorded(i) == tstate[i] = "recorded"

\* Definition b lists the name of definition a in its dependencies.
DependsOnDef(b, a) == Tasks[a].Name \in Tasks[b].DependsOn

RECURSIVE ReachFrom(_, _)
ReachFrom(S, k) ==
    IF k = 0 THEN S
    ELSE ReachFrom(S \cup {j \in Defs : \E i \in S : DependsOnDef(i, j)}, k - 1)

\* Definition i lies on a cycle of the dependency relation.
OnCycle(i) == i \in ReachFrom({j \in Defs : DependsOnDef(i, j)}, Len(Tasks))

\* The names of the definitions never handed to executeTask, in authoring order.
IdleNames ==
    LET idx == SelectSeq(Indices, LAMBDA i : ~Started(i))
    IN  [k \in DOMAIN idx |-> Tasks[idx[k]].Name]

Last(sq) == sq[Len(sq)]

NoDependencies == \A i \in Defs : Tasks[i].DependsOn = {}

\* C1: for every pair of tasks A, B where B lists A in its dependencies, B
\* never begins execution before A's result has been recorded, and B is never
\* executed when A's recorded result is a failure.
C1_DependencyOrder ==
    \A a, b \in Defs :
        DependsOnDef(b, a) /\ Started(b) => Recorded(a) /\ tresult[a].Success

\* C2: once a sequential task without continueOnError has been recorded as
\* failed, Run has returned an error naming it, its result is the last
\* element of the returned results, and no task is running or has been
\* started without being recorded: nothing starts afterwards.
C2_FatalSequentialFailure ==
    \A i \in Defs :
        /\ ~Tasks[i].Parallel
        /\ Recorded(i)
        /\ ~tresult[i].Success
        /\ ~Tasks[i].ContinueOnError
        => /\ pc = "done"
           /\ err = [kind |-> "task failed", task |-> Tasks[i].Name,
                     unexecuted |-> <<>>]
           /\ Last(allResults) = tresult[i]
           /\ \A j \in Defs : tstate[j] \in {"idle", "recorded"}
           /\ \A j \in Defs : Started(j) <=> Recorded(j)

\* C2 witness: a failed sequential task without continueOnError ended the run
\* after an earlier result, with another sequential task of its round unstarted.
C2_Witness ==
    \E i, j \in Defs :
        /\ i # j
        /\ ~Tasks[i].Parallel /\ ~Tasks[i].ContinueOnError
        /\ Recorded(i) /\ ~tresult[i].Success
        /\ Len(allResults) >= 2
        /\ j \in Range(sequentialTasks) /\ ~Started(j)
        /\ pc = "done"

\* C3, the step: recording a failed sequential task with continueOnError
\* does not end the run; Run goes on to the next sequential task or round.
C3_ContinueStep ==
    \A i \in Defs :
        /\ pc = "seq" /\ Callable(i)
        /\ tstate[i] = "returned" /\ tstate'[i] = "recorded"
        /\ ~tresult[i].Success /\ Tasks[i].ContinueOnError
        => /\ pc' \in {"seq", "loop"}
           /\ err' = NoError
           /\ sequentialTasks' = Tail(sequentialTasks)

\* C3, the end of a run: Run ends only with every task recorded, with no
\* unexecuted task ready, or on the failure of a sequential task without
\* continueOnError, whose result is the last one.
C3_RunEnds ==
    pc = "done" =>
        /\ err.kind = "nil" => \A i \in Defs : Recorded(i)
        /\ err.kind = "dependency" => readyTasks(executed, results) = <<>>
        /\ err.kind = "task failed" =>
              \E i \in Defs :
                  /\ Recorded(i) /\ tresult[i] = Last(allResults)
                  /\ ~Tasks[i].Parallel /\ ~Tasks[i].ContinueOnError
                  /\ ~tresult[i].Success /\ err.task = Tasks[i].Name

\* C3: a failed sequential task with continueOnError does not terminate the
\* run; the remaining sequential tasks of the round and the tasks that become
\* ready later are still executed.
C3_ContinueOnError == [][C3_ContinueStep]_vars /\ []C3_RunEnds

\* C3 witness: after a sequential task with continueOnError failed, the next
\* sequential task of the same round runs and a later round has a task left.
C3_Witness ==
    \E i, j \in Defs :
        /\ ~Tasks[i].Parallel /\ Tasks[i].ContinueOnError
        /\ Recorded(i) /\ ~tresult[i].Success
        /\ ~Tasks[j].Parallel /\ tstate[j] = "running"
        /\ roundOf[j] = roundOf[i]
        /\ \E k \in Defs : ~Started(k) /\ k # j

\* C4: when Run ends with unexecuted tasks and no failed sequential task, the
\* error is the dependency error, and that error lists exactly the names of
\* the tasks that have not been executed, in authoring order.
C4_DependencyError ==
    pc = "done" =>
        /\ err.kind = "dependency" => err.unexecuted = IdleNames
        /\ (\E i \in Defs : ~Started(i)) /\ err.kind # "task failed"
              => err.kind = "dependency"

\* C5: a task on a dependency cycle is never executed; the workflow
\* {A depends on B, B depends on A} ends with the dependency error, no result
\* and no backend invocation.
C5_CycleNeverRuns ==
    /\ \A i \in Defs : OnCycle(i) => ~Started(i)
    /\ /\ Len(Tasks) = 2
       /\ Tasks[1].Name = "A" /\ Tasks[1].DependsOn = {"B"}
       /\ Tasks[2].Name = "B" /\ Tasks[2].DependsOn = {"A"}
       /\ pc = "done"
       => /\ err.kind = "dependency"
          /\ allResults = <<>>
          /\ \A i \in Defs : invoked[i] = 0

\* C6 as stated: in a workflow without dependencies, whatever the flags and
\* outcomes, Run executes every task exactly once and returns as many results
\* as the workflow has tasks.
C6_NoDependencies ==
    NoDependencies /\ pc = "done" =>
        /\ \A i \in Defs : calls[i] = 1
        /\ Len(allResults) = Len(Tasks)

\* The run ended on the failure of a sequential task without continueOnError,
\* whose result is the last one.
StoppedByFailure ==
    /\ err.kind = "task failed"
    /\ \E i \in Defs :
          /\ ~Tasks[i].Parallel /\ ~Tasks[i].ContinueOnError
          /\ Recorded(i) /\ ~tresult[i].Success
          /\ tresult[i] = Last(allResults)
          /\ err.task = Tasks[i].Name

\* C6 amended: in a workflow without dependencies no task is executed twice
\* and there is one result per executed task; Run executes every task exactly
\* once and returns as many results as there are tasks, unless a sequential
\* task without continueOnError fails, which ends the run at that task.
C6_NoDependenciesAmended ==
    NoDependencies =>
        /\ \A i \in Defs : calls[i] <= 1
        /\ Len(allResults) = Cardinality({i \in Defs : Recorded(i)})
        /\ pc = "done" =>
              \/ /\ \A i \in Defs : calls[i] = 1 /\ Recorded(i)
                 /\ Len(allResults) = Len(Tasks)
              \/ StoppedByFailure

\* C6 witness: a run without dependencies executed all three tasks, one of
\* them failed, and the first result is not the first task's.
C6_Witness ==
    /\ NoDependencies /\ pc = "done"
    /\ Len(Tasks) = 3 /\ Len(allResults) = 3
    /\ \A i \in Defs : calls[i] = 1
    /\ \E i \in Defs : ~tresult[i].Success
    /\ allResults[1].TaskName # Tasks[1].Name

\* C7: every task definition is handed to executeTask at most once, and the
\* result list holds at most one result per task name.
C7_AtMostOnce ==
    /\ \A i \in Defs : calls[i] <= 1
    /\ \A k, l \in DOMAIN allResults :
          allResults[k].TaskName = allResults[l].TaskName => k = l

\* C8: a member of the parallel group that is executing, or has returned and
\* is not yet recorded, is in the group Run is waiting for; while a member
\* has not returned, every other started task is a member or was recorded in
\* an earlier round; a sequential task executes only after the round's
\* parallel group has been recorded.
C8_JoinBarrier ==
    /\ \A i \in Defs :
          Tasks[i].Parallel /\ tstate[i] \in {"running", "returned"}
          => pc = "par" /\ i \in Range(parallelTasks)
    /\ \A i, j \in Defs :
          /\ Member(i) /\ tstate[i] # "returned"
          /\ j \notin Range(parallelTasks)
          => /\ tstate[j] \in {"idle", "recorded"}
             /\ Started(j) => roundOf[j] < round
    /\ \A j \in Defs :
          ~Tasks[j].Parallel /\ tstate[j] \in {"running", "returned"}
          => /\ pc = "seq"
             /\ \A i \in Range(parallelTasks) : roundOf[i] = round => Recorded(i)

\* C8 witness: one member of the parallel group runs, another has returned,
\* and a sequential task of the same round has not been started.
C8_Witness ==
    /\ pc = "par"
    /\ \E i, j \in Range(parallelTasks) :
          tstate[i] = "running" /\ tstate[j] = "returned"
    /\ \E k \in Range(sequentialTasks) : tstate[k] = "idle"

\* C9: a member of the parallel group that has not been started can start,
\* and a running member can take its next step, whatever the state of the
\* other members: no member waits for another.
C9_MembersIndependent ==
    \A i \in Defs :
        Member(i) =>
            /\ tstate[i] = "idle" => ENABLED StartTask(i)
            /\ tstate[i] = "running" => ENABLED Attempt(i)

\* C9 witness: the three members of a parallel group are all started and
\* none has finished.
C9_Witness ==
    /\ pc = "par"
    /\ Len(parallelTasks) = 3
    /\ \A i \in Range(parallelTasks) : tstate[i] = "running"

\* C10, the step: Run leaves the parallel group only when every member has
\* returned, appends the result of every member, failed or not, and goes on
\* without an error.
C10_JoinStep ==
    pc = "par" /\ pc' # "par" =>
        /\ waitDone(parallelTasks, tstate)
        /\ allResults' = allResults \o
              [k \in DOMAIN parallelTasks |-> tresult[parallelTasks[k]]]
        /\ pc' \in {"seq", "loop"}
        /\ err' = NoError

\* C10, the state: only a task's own timeout ends its context, and a member's
\* result carries its own name.
C10_OwnFailure ==
    \A i \in Defs :
        /\ expired[i] => Tasks[i].Timeout > 0
        /\ tstate[i] = "returned" => tresult[i].TaskName = Tasks[i].Name

\* C10: the failure of a member of a parallel group, also by its timeout,
\* stays in that member's result: no sibling is cancelled or skipped, the
\* barrier waits for all members, all results are returned and the run goes on.
C10_ParallelFailureIsolated == [][C10_JoinStep]_vars /\ []C10_OwnFailure

\* C10 witness: a parallel group was recorded in which one member failed by
\* its timeout and a sibling succeeded, and the run has not ended.
C10_Witness ==
    \E i, j \in Defs :
        /\ Tasks[i].Parallel /\ Tasks[j].Parallel
        /\ Recorded(i) /\ Recorded(j) /\ roundOf[i] = roundOf[j]
        /\ tresult[i].Error = "deadline exceeded"
        /\ tresult[j].Success
        /\ pc = "loop" /\ err = NoError /\ Len(allResults) = 2

\* C1, C4, C5 and C7 for workflows whose task names are unique.
UniqueNamesLemma ==
    UniqueNames =>
        /\ C1_DependencyOrder
        /\ C4_DependencyError
        /\ C5_CycleNeverRuns
        /\ C7_AtMostOnce

\* A sequential task without continueOnError has been recorded as failed.
FatalFailure ==
    \E i \in Defs :
        /\ ~Tasks[i].Parallel /\ ~Tasks[i].ContinueOnError
        /\ Recorded(i) /\ ~tresult[i].Success

\* No task is ready although a task has never been executed.
NoReadyTask ==
    /\ \E i \in Defs : ~Started(i)
    /\ readyTasks(executed, results) = <<>>

\* C11: when Run has returned, its error is non-nil if and only if a
\* sequential task without continueOnError failed or a round found no ready
\* task while unexecuted tasks remained; with a nil error the result list
\* holds exactly one result per task; with an error it holds exactly the
\* results recorded up to that point.
C11_RunError ==
    pc = "done" =>
        /\ err # NoError <=> FatalFailure \/ NoReadyTask
        /\ err = NoError =>
              /\ Len(allResults) = Len(Tasks)
              /\ \A i \in Defs : \E k \in DOMAIN allResults :
                    allResults[k] = tresult[i] /\ Recorded(i)
        /\ err # NoError =>
              /\ Len(allResults) = Cardinality({i \in Defs : Recorded(i)})
              /\ \A i \in Defs : Recorded(i) => tresult[i] \in Range(allResults)
              /\ \A i \in Defs : Started(i) <=> Recorded(i)

\* C11 for workflows whose task names are unique.
C11_UniqueNamesLemma == UniqueNames => C11_RunError

\* C12: of two task definitions that share a name, Run executes at most one,
\* and the result list never holds two results under the same name.
C12_UniqueNamesEnforced ==
    /\ \A i, j \in Defs :
          i # j /\ Tasks[i].Name = Tasks[j].Name => ~(Started(i) /\ Started(j))
    /\ \A k, l \in DOMAIN allResults :
          k # l => allResults[k].TaskName # allResults[l].TaskName

\* The task's configured number of attempts, for a task that configures one.
Configured(i) == Tasks[i].MaxAttempts >= 1

Finished(i) == tstate[i] \in {"returned", "recorded"}

\* C13, the state: a task with maxAttempts = m >= 1 invokes its backend at
\* most m times; the loop goes on only after a failed invocation; a success
\* result is the result of the last invocation (the k-th invocation puts k
\* out), a failure result is the result of invocation m; the result list
\* holds the final result of each recorded task and nothing else.
C13_RetryState ==
    /\ \A i \in Defs :
          Configured(i) =>
              /\ invoked[i] <= Tasks[i].MaxAttempts
              /\ tstate[i] = "running" =>
                    /\ invoked[i] < Tasks[i].MaxAttempts
                    /\ invoked[i] > 0 => ~tresult[i].Success
              /\ Finished(i) /\ invoked[i] > 0 =>
                    /\ tresult[i].Success =>
                          tresult[i] = ExecResult(Tasks[i], invoked[i], "nil")
                    /\ ~tresult[i].Success => invoked[i] = Tasks[i].MaxAttempts
              /\ Recorded(i) => tresult[i] \in Range(allResults)
    /\ Len(allResults) = Cardinality({i \in Defs : Recorded(i)})

\* C13, the step: the backend is invoked once per step, only by a running
\* task whose previous invocation, if any, failed; never after a success.
C13_RetryStep ==
    \A i \in Defs :
        invoked'[i] # invoked[i] =>
            /\ invoked'[i] = invoked[i] + 1
            /\ tstate[i] = "running"
            /\ invoked[i] > 0 => ~tresult[i].Success
            /\ tresult'[i].Success => tstate'[i] = "returned"

\* C13: a task with maxAttempts = m whose backend fails k times and then
\* succeeds invokes the backend min(k+1, m) times and returns the result of
\* the last invocation; only that result is recorded, and the backend is not
\* invoked after a success.
C13_Retry == [][C13_RetryStep]_vars /\ []C13_RetryState

\* C13 witness: with maxAttempts 3 the backend failed twice and succeeded at
\* the third invocation, whose output is the recorded one.
C13_Witness ==
    \E i \in Defs :
        /\ Tasks[i].MaxAttempts = 3 /\ invoked[i] = 3
        /\ Recorded(i) /\ tresult[i].Success
        /\ tresult[i].Output = <<"3">>
        /\ tresult[i] \in Range(allResults)

\* C14: executeTask returns for every task: it can start and take each of
\* its boundedly many steps, and the result it returns is not nil, carries
\* the task's name, and has an error exactly if its success flag is false.
C14_ExecuteTaskTotal ==
    \A i \in Defs :
        /\ Callable(i) /\ tstate[i] = "idle" => ENABLED StartTask(i)
        /\ tstate[i] = "running" =>
              /\ ENABLED Attempt(i)
              /\ attempt[i] < (IF Configured(i) THEN Tasks[i].MaxAttempts ELSE 1)
        /\ Finished(i) =>
              /\ tresult[i] # NoResult
              /\ tresult[i].TaskName = Tasks[i].Name
              /\ tresult[i].Error # "nil" <=> ~tresult[i].Success

\* C14 witness: a task of an unknown type with a negative maxAttempts and a
\* condition that holds has returned its failure result.
C14_Witness ==
    \E i \in Defs :
        /\ Tasks[i].MaxAttempts < 0 /\ Tasks[i].Type = "ftp"
        /\ Tasks[i].Condition # <<>>
        /\ tstate[i] = "returned" /\ invoked[i] = 1
        /\ tresult[i].Error = "unknown task type"

\* executeTask found the condition of definition i false.
ConditionFalse(i) ==
    Started(i) /\ Tasks[i].Condition # <<>> /\ ~evaluateResolved(resolved[i])

\* C15: a task whose condition evaluated to false has returned without any
\* invocation of its backend; its result is a success without error whose
\* output is "Skipped due to condition"; once recorded it is executed and
\* successful in the result store, so a task that depends on it alone has its
\* dependencies met and is ready in the next round.
C15_SkippedByCondition ==
    \A i \in Defs :
        ConditionFalse(i) =>
            /\ Finished(i)
            /\ invoked[i] = 0 /\ attempt[i] = 0
            /\ tresult[i] = [TaskName |-> Tasks[i].Name, Success |-> TRUE,
                             Error |-> "nil", Output |-> SkippedOutput]
            /\ Recorded(i) =>
                  /\ Tasks[i].Name \in executed
                  /\ results[Tasks[i].Name] = tresult[i]
                  /\ \A j \in Defs :
                        Tasks[j].DependsOn = {Tasks[i].Name} =>
                            /\ dependenciesMet(Tasks[j], executed, results)
                            /\ pc = "loop" /\ ~Started(j) =>
                                  j \in Range(readyTasks(executed, results))

\* C15 witness: a task with a retry policy was skipped by its condition, and
\* the task that depends on it is running.
C15_Witness ==
    \E i, j \in Defs :
        /\ ConditionFalse(i) /\ Recorded(i)
        /\ Tasks[i].MaxAttempts >= 2 /\ invoked[i] = 0
        /\ DependsOnDef(j, i) /\ tstate[j] = "running"

\* C16: for a started task whose condition is ${env} == "prod", the condition
\* is found true exactly if the workflow variable env is "prod"; for the
\* condition ${env} != "prod", exactly if env is not "prod".
C16_ConditionEquality ==
    \A i \in Defs :
        Started(i) /\ EnvKey \in DOMAIN workflow.Variables =>
            /\ Tasks[i].Condition = CondEq(EnvKey, Prod) =>
                  (~ConditionFalse(i) <=> workflow.Variables[EnvKey] = Prod)
            /\ Tasks[i].Condition = CondNe(EnvKey, Prod) =>
                  (~ConditionFalse(i) <=> workflow.Variables[EnvKey] # Prod)

\* The cases of C16 in which evaluateCondition answers as documented: the
\* variable differs from the quoted operand.
C16_DifferentOperandsLemma ==
    \A i \in Defs :
        /\ Started(i) /\ EnvKey \in DOMAIN workflow.Variables
        /\ workflow.Variables[EnvKey] # Prod
        => /\ Tasks[i].Condition = CondEq(EnvKey, Prod) => ConditionFalse(i)
           /\ Tasks[i].Condition = CondNe(EnvKey, Prod) => ~ConditionFalse(i)

\* The texts Engine.replaceVariables can return for input in the current state.
Resolutions(input) ==
    {replaceVariables(input, workflow.Variables, results, varOrder, taskOrder) :
        varOrder \in Orders(DOMAIN workflow.Variables),
        taskOrder \in Orders(DOMAIN results)}

\* Definition i is inside executeTask and its backend has been invoked; the
\* result store is then the one the invocation could read.
Invoked(i) ==
    tstate[i] \in {"running", "returned"} /\ invoked[i] > 0 /\ UsesField(Tasks[i])

\* C17: the text a backend uses as its command, URL or file path is the
\* task's field after variable resolution: ${key} replaced by the workflow
\* variable and ${T.output} by the output of every task T recorded as
\* successful.
C17_FieldsResolved ==
    \A i \in Defs : Invoked(i) => handed[i] \in Resolutions(Tasks[i].Command)

\* The part of C17 about workflow variables: the text a backend uses holds
\* no placeholder of a defined workflow variable.
C17_VariablesLemma ==
    \A i \in Defs :
        Invoked(i) =>
            \A key \in DOMAIN workflow.Variables :
                ~Contains(handed[i], Placeholder(key))

\* A text without the characters of a placeholder.
Plain(text) == \A k \in DOMAIN text : text[k] \notin {"$", "{", "}"}

\* No workflow variable and no recorded output holds placeholder characters.
PlainValues ==
    /\ \A key \in DOMAIN workflow.Variables : Plain(workflow.Variables[key])
    /\ \A n \in DOMAIN results : Plain(results[n].Output)

\* What each resolvable placeholder stands for: ${key} for the value of the
\* workflow variable key, ${T.output} for the output of a task T recorded as
\* successful.
Table ==
    LET keys == DOMAIN workflow.Variables
        done == {n \in DOMAIN results : results[n].Success}
    IN  [ph \in {Placeholder(key) : key \in keys}
                \cup {OutputPlaceholder(n) : n \in done} |->
            IF \E key \in keys : ph = Placeholder(key)
            THEN workflow.Variables[CHOOSE key \in keys : ph = Placeholder(key)]
            ELSE results[CHOOSE n \in done : ph = OutputPlaceholder(n)].Output]

\* The text s from position p on, with every placeholder of the table
\* replaced by what it stands for and every other character kept.
RECURSIVE Substitute(_, _, _)
Substitute(s, table, p) ==
    IF p > Len(s) THEN <<>>
    ELSE LET hits == {ph \in DOMAIN table :
                         /\ p + Len(ph) - 1 <= Len(s)
                         /\ SubSeq(s, p, p + Len(ph) - 1) = ph}
         IN  IF hits = {} THEN <<s[p]>> \o Substitute(s, table, p + 1)
             ELSE LET ph == CHOOSE h \in hits : TRUE
                  IN  table[ph] \o Substitute(s, table, p + Len(ph))

\* C18, the step: when executeTask resolves a condition, every ${key} of a
\* workflow variable and every ${T.output} of a task recorded as successful
\* is replaced by its value, and every other character, so every other
\* placeholder, is kept as it is (for variable values and outputs that hold
\* no placeholder characters themselves).
C18_ResolveStep ==
    \A i \in Defs :
        calls'[i] # calls[i] /\ Tasks[i].Condition # <<>> /\ PlainValues =>
            resolved'[i] = Substitute(Tasks[i].Condition, Table, 1)

\* C18, the state: a text without a resolvable placeholder resolves to
\* itself, whatever the values hold.
C18_Verbatim ==
    \A i \in Defs :
        (\A ph \in DOMAIN Table : ~Contains(Tasks[i].Condition, ph)) =>
            Resolutions(Tasks[i].Condition) = {Tasks[i].Condition}

C19_RetryAfterTimeout ==
    \A i \in Defs :
        /\ tstate[i] = "running"
        /\ attempt[i] >= 1
        /\ tresult[i].Error = "deadline exceeded"
        => ENABLED (Attempt(i) /\ tresult'[i].Success)

\* What the code does instead of C19: once an attempt has failed by the
\* timeout, every later attempt of the task fails by it as well.
C19_DeadlineSharedLemma ==
    \A i \in Defs :
        attempt[i] >= 1 /\ tresult[i].Error = "deadline exceeded" => expired[i]

\* C20, the state: every entry of the result store is the result of a
\* recorded task of that name; while a member of a parallel group has not
\* been recorded, the store holds no entry for any member of the group; and
\* the dependency check of a round runs while no task is executing.
C20_StoreState ==
    /\ \A n \in DOMAIN results :
          \E i \in Defs :
              Tasks[i].Name = n /\ Recorded(i) /\ results[n] = tresult[i]
    /\ \A i, j \in Defs :
          Member(i) /\ Member(j) /\ ~Recorded(i) =>
              Tasks[j].Name \notin DOMAIN results
    /\ pc = "loop" => \A i \in Defs : tstate[i] \in {"idle", "recorded"}

\* C20, the step: when a member of a parallel group resolves its condition,
\* the placeholder of every sibling's output stays in the text.
C20_ObserveStep ==
    \A i, j \in Defs :
        /\ calls'[i] # calls[i] /\ Member(i) /\ Member(j) /\ j # i
        /\ Contains(Tasks[i].Condition, OutputPlaceholder(Tasks[j].Name))
        => Contains(resolved'[i], OutputPlaceholder(Tasks[j].Name))

\* C20: the result store holds an entry for a task only once the task's
\* execution has completed and been recorded; no member of a running
\* parallel group observes the result of a sibling.
C20_ResultVisibility == [][C20_ObserveStep]_vars /\ []C20_StoreState

\* C20 witness: member A of a parallel group has returned a success, and its
\* sibling B, started afterwards with the condition ${A.output} == 1, found
\* the placeholder unresolved.
C20_Witness ==
    \E i, j \in Defs :
        /\ Member(i) /\ Member(j) /\ i # j
        /\ tstate[i] = "returned" /\ tresult[i].Success /\ invoked[i] = 1
        /\ tstate[j] = "returned" /\ invoked[j] = 0
        /\ Tasks[j].Condition = CondOutput
        /\ resolved[j] = CondOutput

\* Definition i is inside executeTask of the current run and has resolved its
\* condition; the result store is still the one it read.
Resolving(i) ==
    tstate[i] \in {"running", "returned"} /\ Tasks[i].Condition # <<>>

\* C21: in every run on the engine, a condition that refers to the output of
\* a task that has not been recorded in that run is resolved as on a new
\* engine: the placeholder stays in the text.
C21_StatelessBetweenRuns ==
    \A i \in Defs : \A n \in Range(TaskNames) :
        /\ Resolving(i)
        /\ Contains(Tasks[i].Condition, OutputPlaceholder(n))
        /\ ~(\E j \in Defs : Tasks[j].Name = n /\ Recorded(j))
        => Contains(resolved[i], OutputPlaceholder(n))

\* C21 holds in the first run on an engine.
C21_FirstRunLemma == runs = 1 => C21_StatelessBetweenRuns

\* The dependency check of a later run does not see the results of an
\* earlier one: a task is ready only if its dependencies are recorded in the
\* current run.
C21_DependencyLemma ==
    \A i, j \in Defs :
        Started(i) /\ DependsOnDef(i, j) =>
            \E k \in Defs : Tasks[k].Name = Tasks[j].Name /\ Recorded(k)

\* C22, the state: at most one thread holds the mutex; a thread holds it
\* exactly while it is between Lock and Unlock of replaceVariables, and the
\* thread of Run only for an access to the result store; a thread that is
\* in its backend or its retry delay does not hold it; whoever holds the
\* mutex can go on and release it, and the run can always take a step until
\* Run has returned.
C22_LockState ==
    /\ Cardinality(mu) <= 1
    /\ \A i \in Defs : i \in mu <=> tstate[i] = "locked"
    /\ \A i \in Defs : tstate[i] = "running" => i \notin mu
    /\ RunThread \in mu =>
          /\ ReadsStore \/ WritesStore
          /\ \A i \in Defs : tstate[i] \notin {"locked", "running"}
    /\ \A i \in Defs : i \in mu => ENABLED UnlockResults(i)
    /\ RunThread \in mu =>
          ENABLED (LockedRunLoop \/ LockedJoin \/ LockedSeqRecord)
    /\ pc # "done" => ENABLED LockNext

\* C22, the step: e.results is written only by the holder of the mutex, a
\* condition is resolved and the dependencies are checked against e.results
\* only by the holder, and a backend is invoked only by a thread that does
\* not hold it.
C22_LockStep ==
    /\ results' # results => RunThread \in mu
    /\ ReadsStore /\ pc' # "loop" => RunThread \in mu
    /\ \A i \in Defs :
          /\ calls'[i] # calls[i] /\ Tasks[i].Condition # <<>> => i \in mu
          /\ invoked'[i] # invoked[i] => i \notin mu /\ i \notin mu'

\* C22: every access to the result store happens under the engine's mutex,
\* which at most one thread holds, never during a backend invocation or a
\* retry delay, and no interleaving of Run with the goroutines of a parallel
\* group deadlocks on it.
C22_LockDiscipline == [][C22_LockStep]_vars /\ []C22_LockState

\* C22 witness: a member of a parallel group holds the mutex while a sibling
\* with a condition waits for it and a third member runs its backend.
C22_Witness ==
    \E i, j, k \in Defs :
        /\ Member(i) /\ Member(j) /\ Member(k)
        /\ mu = {i}
        /\ tstate[j] = "idle" /\ Tasks[j].Condition # <<>>
        /\ ~ENABLED LockResults(j)
        /\ tstate[k] = "running"

\* Definition j depends on definition i, directly or through other tasks.
DependsTransitively(j, i) ==
    i \in ReachFrom({k \in Defs : DependsOnDef(j, k)}, Len(Tasks))

\* Definition i has been recorded as failed and its failure did not end the
\* run: it is a member of a parallel group or has continueOnError.
NonFatalFailure(i) ==
    /\ Recorded(i) /\ ~tresult[i].Success
    /\ Tasks[i].Parallel \/ Tasks[i].ContinueOnError

\* C23: after a failure that does not end the run, no task that depends on
\* the failed task, directly or transitively, is ever executed, and if there
\* is such a task the run ends with the dependency error, which lists it.
C23_FailurePropagation ==
    \A i, j \in Defs :
        NonFatalFailure(i) /\ DependsTransitively(j, i) =>
            /\ ~Started(j)
            /\ pc = "done" =>
                  /\ err.kind = "dependency"
                  /\ Tasks[j].Name \in Range(err.unexecuted)

\* C23 for workflows with unique task names: the dependents are never
\* executed, and the run ends with the dependency error that lists them
\* unless a sequential task without continueOnError failed as well.
C23_UniqueNamesLemma ==
    UniqueNames =>
        \A i, j \in Defs :
            NonFatalFailure(i) /\ DependsTransitively(j, i) =>
                /\ ~Started(j)
                /\ pc = "done" =>
                      \/ /\ err.kind = "dependency"
                         /\ Tasks[j].Name \in Range(err.unexecuted)
                      \/ StoppedByFailure

\* The part of C23 that holds whatever the names: a started task never
\* depends on a name whose stored result is a failure.
C23_StoredFailureLemma ==
    \A j \in Defs : \A n \in Tasks[j].DependsOn :
        tstate[j] \in {"running", "returned"} =>
            n \in DOMAIN results /\ results[n].Success

\* Whether a sequence of task indices is in authoring order.
Increasing(sq) == \A k, l \in DOMAIN sq : k < l => sq[k] < sq[l]

\* Whether the result of definition i stands before that of definition j:
\* the earlier round first; within a round the parallel group first; within
\* a group the authoring order.
Precedes(i, j) ==
    \/ roundOf[i] < roundOf[j]
    \/ roundOf[i] = roundOf[j] /\ Tasks[i].Parallel /\ ~Tasks[j].Parallel
    \/ roundOf[i] = roundOf[j] /\ Tasks[i].Parallel = Tasks[j].Parallel /\ i < j

\* The recorded definitions in the order of Precedes.
RecordedOrder ==
    CHOOSE sq \in Orders({i \in Defs : Recorded(i)}) :
        \A k, l \in DOMAIN sq : k < l => Precedes(sq[k], sq[l])

\* C24, in every state: while a round is executed, the parallel group and the
\* remaining sequential group are in authoring order and hold parallel and
\* sequential tasks only; the result list holds the results of the recorded
\* definitions round by round, in each round the parallel group's results in
\* authoring order and then the sequential results in authoring order.
C24_OrderState ==
    /\ pc \in {"par", "seq"} =>
          /\ Increasing(parallelTasks) /\ Increasing(sequentialTasks)
          /\ \A i \in Range(parallelTasks) : Tasks[i].Parallel
          /\ \A i \in Range(sequentialTasks) : ~Tasks[i].Parallel
    /\ allResults = [k \in DOMAIN RecordedOrder |-> tresult[RecordedOrder[k]]]

\* C24, in every step: a round's two groups partition its ready set; a
\* sequential task is called when the whole parallel group of the round is
\* recorded, no other call is in progress, and it is the first of the
\* sequential tasks that remain, the ones before it being recorded.
C24_OrderStep ==
    /\ pc = "loop" /\ pc' \in {"par", "seq"} =>
          /\ Range(parallelTasks') \cup Range(sequentialTasks')
                = Range(readyTasks(executed, results))
          /\ Len(parallelTasks') + Len(sequentialTasks')
                = Len(readyTasks(executed, results))
    /\ \A i \in Defs :
          calls'[i] > calls[i] /\ ~Tasks[i].Parallel =>
              /\ \A j \in Range(parallelTasks) : Recorded(j)
              /\ \A j \in Defs \ {i} : tstate[j] \notin {"running", "returned"}
              /\ i = Head(sequentialTasks)
              /\ \A j \in Defs :
                    ~Tasks[j].Parallel /\ roundOf[j] = round /\ Started(j) =>
                        j < i /\ Recorded(j)

\* C24: the order within a round.
C24_OrderWithinRound == [][C24_OrderStep]_vars /\ []C24_OrderState

\* C24's case: a run that recorded, in one round, two members of the parallel
\* group and a sequential task that stands before one of them in the workflow.
C24_Witness ==
    /\ pc = "done"
    /\ \E i, j, k \in Defs :
          /\ i < j /\ k < j
          /\ Tasks[i].Parallel /\ Tasks[j].Parallel /\ ~Tasks[k].Parallel
          /\ Recorded(i) /\ Recorded(j) /\ Recorded(k)
          /\ roundOf[i] = roundOf[j] /\ roundOf[j] = roundOf[k]

\* The two parts of a text around the first occurrence of sep; sep occurs.
SplitFirst(str, sep) ==
    LET p == IndexFrom(str, sep, 1)
    IN  <<SubSeq(str, 1, p - 1), SubSeq(str, p + Len(sep), Len(str))>>

\* The operands of a comparison as evaluateCondition trims them (lines
\* 207-208): white space around the left one, quotes and then white space
\* around the right one.
Operands(parts) == <<TrimSpace(parts[1]), TrimSpace(Trim(parts[2], Quotes))>>

\* executeTask evaluated the condition of definition i.
Evaluated(i) == Started(i) /\ Tasks[i].Condition # <<>>

\* C25: a resolved condition that contains == was found true exactly if the
\* operands around its first == are equal, whatever else the text contains;
\* one that contains != and no == exactly if the operands around its first
\* != differ.
C25_OperatorParsing ==
    \A i \in Defs :
        Evaluated(i) =>
            /\ Contains(resolved[i], EqOp) =>
                  LET ops == Operands(SplitFirst(resolved[i], EqOp))
                  IN  ~ConditionFalse(i) <=> ops[1] = ops[2]
            /\ Contains(resolved[i], NeOp) /\ ~Contains(resolved[i], EqOp) =>
                  LET ops == Operands(SplitFirst(resolved[i], NeOp))
                  IN  ~ConditionFalse(i) <=> ops[1] # ops[2]

\* The cases of C25 in which evaluateCondition answers as stated: the text
\* holds == once, or no == at all.
C25_SingleEqualityLemma ==
    \A i \in Defs :
        Evaluated(i) /\ Len(Split(resolved[i], EqOp)) <= 2 =>
            /\ Contains(resolved[i], EqOp) =>
                  LET ops == Operands(SplitFirst(resolved[i], EqOp))
                  IN  ~ConditionFalse(i) <=> ops[1] = ops[2]
            /\ Contains(resolved[i], NeOp) /\ ~Contains(resolved[i], EqOp) =>
                  LET ops == Operands(SplitFirst(resolved[i], NeOp))
                  IN  ~ConditionFalse(i) <=> ops[1] # ops[2]

\* A text that holds neither comparison operator.
NoOperator(text) == ~Contains(text, EqOp) /\ ~Contains(text, NeOp)

\* The texts that are false as a truth value: empty, "false", "0".
Falsy == {<<>>, False, <<"0">>}

\* executeTask returned for definition i without invoking its backend, with
\* the result of a task skipped by its condition.
Skipped(i) ==
    /\ Started(i) /\ Finished(i) /\ invoked[i] = 0
    /\ tresult[i] = SkippedResult(Tasks[i])

\* C26: for a started task whose resolved condition holds no operator (the
\* empty condition included), the task was skipped exactly if the resolved
\* text is empty, "false" or "0".
C26_Truthiness ==
    \A i \in Defs :
        Started(i) /\ NoOperator(resolved[i]) =>
            (Skipped(i) <=> resolved[i] \in Falsy)

\* C26 amended: a resolved text without operator evaluates to false exactly
\* if it is empty, "false" or "0"; a started task is skipped exactly if its
\* condition is not the empty string and evaluates to false, so a condition
\* that resolves to the empty string skips the task, and a task whose
\* condition is the empty string is run.
C26_TruthinessAmended ==
    \A i \in Defs :
        Started(i) /\ NoOperator(resolved[i]) =>
            /\ ~evaluateResolved(resolved[i]) <=> resolved[i] \in Falsy
            /\ Skipped(i) <=> Tasks[i].Condition # <<>> /\ resolved[i] \in Falsy
            /\ ~Skipped(i) => tstate[i] = "running" \/ invoked[i] >= 1

\* C26's case: the condition ${a} resolved to the empty string and its task
\* was skipped and recorded; the task that depends on it, whose condition is
\* the empty string, had its backend invoked.
C26_Witness ==
    \E i, j \in Defs :
        /\ Tasks[i].Condition = Placeholder(KeyA) /\ resolved[i] = <<>>
        /\ Skipped(i) /\ Recorded(i)
        /\ DependsOnDef(j, i) /\ Tasks[j].Condition = <<>> /\ invoked[j] >= 1

\* C27: whenever executeTask is about to resolve the condition of a task,
\* Engine.replaceVariables has one text it can return for the workflow's
\* variables and the recorded results as they are, in whatever order the two
\* maps are visited.
C27_ResolverDeterministic ==
    \A i \in Defs :
        tstate[i] = "idle" /\ Callable(i) =>
            Cardinality(Resolutions(Tasks[i].Condition)) = 1

\* The cases of C27 in which the resolver is a function of its inputs: no
\* variable value and no recorded output holds placeholder characters.
C27_PlainValuesLemma ==
    PlainValues => C27_ResolverDeterministic

\* What C27's nondeterminism does to a run: with a = ${b} and b = 1, the
\* task with the condition ${a}==1 is run or skipped, by the order of the
\* map iteration.
C27_NestedValueLemma ==
    \A i \in Defs :
        /\ pc = "seq" /\ tstate[i] = "idle" /\ Callable(i)
        /\ Tasks[i].Condition = Placeholder(KeyA) \o EqOp \o One
        /\ KeyB \in DOMAIN workflow.Variables
        => /\ ENABLED (StartTask(i) /\ tstate'[i] = "running")
           /\ ENABLED (StartTask(i) /\ tstate'[i] = "returned")

\* C28, in every state: at most as many rounds have begun as the workflow has
\* tasks, plus one; when a round is over, every round so far has added a name
\* to the executed ones.
C28_RoundState ==
    /\ round <= Len(Tasks) + 1
    /\ pc = "loop" => Cardinality(executed) >= round

\* C28, in every step: an iteration of Run's loop ends the run or starts a
\* round whose groups hold tasks that are not executed yet, at least one.
C28_RoundStep ==
    pc = "loop" =>
        \/ pc' = "done"
        \/ /\ Len(parallelTasks') + Len(sequentialTasks') >= 1
           /\ \A i \in Range(parallelTasks') \cup Range(sequentialTasks') :
                 Tasks[i].Name \notin executed

\* C28: with backends that terminate, Run terminates for every workflow, each
\* round executes a task not executed before or ends the run, and there are
\* at most as many rounds as tasks, plus one.
C28_Termination ==
    <>(pc = "done") /\ [][C28_RoundStep]_vars /\ []C28_RoundState

\* C28's case: Run has returned, after more than one round, for a workflow
\* with a duplicate name, a dependency cycle and a missing dependency name.
C28_Witness ==
    /\ pc = "done" /\ round >= 2
    /\ ~UniqueNames
    /\ \E i \in Defs : OnCycle(i)
    /\ \E i \in Defs : MissingName \in Tasks[i].DependsOn

====
